---- MODULE Spec2Model ----
(***************************************************************************)
(* CodeCraft AI Agent (src/index.tsx): the code generation panel, the chat *)
(* assistant panel, the tab shell that mounts one of them at a time inside *)
(* the error boundary, and the markdown renderer (a pure function, applied *)
(* to bounded contents under RenderSpec).                                  *)
(*                                                                         *)
(* A text is a sequence of tokens (a token stands for one character or for *)
(* one fixed piece of a message); string concatenation is \o.              *)
(* Each action is one synchronous block of a handler: the code from an     *)
(* event (or from the resumption of an await) up to the next await.  React *)
(* applies the state updates of one block together.                        *)
(***************************************************************************)
EXTENDS Naturals, Sequences, FiniteSets

\* ------------------------------------------------------------ bounds
\* chunks the streams in flight of one panel have delivered at most
MaxChunks == 2
\* entries of the transcript at most
MaxMessages == 6
\* generateCode calls of removed panels in flight at once
MaxGenOrphans == 1
\* session handles constructed in one page lifetime
MaxSessions == 2
\* pieces a content given to the renderer is put together from at most
MaxTokens == 4

\* ------------------------------------------------------------ texts
WhiteSpace == {" ", "\n"}

RECURSIVE trimStart(_)
trimStart(s) ==
  IF s # << >> /\ Head(s) \in WhiteSpace THEN trimStart(Tail(s)) ELSE s

RECURSIVE trimEnd(_)
trimEnd(s) ==
  IF s # << >> /\ s[Len(s)] \in WhiteSpace
  THEN trimEnd(SubSeq(s, 1, Len(s) - 1))
  ELSE s

\* String.prototype.trim
trim(s) == trimEnd(trimStart(s))

\* !text.trim()
BlankBug(s) == s = << >>
Blank(s) == trim(s) = << >>

\* what the user can type into the description box and the chat input
Descriptions == {<< >>, <<" ">>, <<"x">>}
Inputs == {<< >>, <<" ">>, <<"q">>}
SuggestionTask == <<"t">>

\* the text of the k-th chunk of a generation stream: a letter, or nothing
\* (chunk.text undefined or empty)
Letter == <<"a", "b", "c", "d">>
ChunkTexts(k) == {<< >>, <<Letter[k]>>}
\* the text of the k-th chunk of a chat stream
ChatChunkTexts(k) == {<<Letter[k]>>}

\* the message of a request or stream failure; << >> is an error without one
ErrorMessages == {<< >>, <<"fetch failed">>}

\* ------------------------------------------------------------ environment
\* the value the build inlines for a variable: "" when it is not set
EnvValues == {"", "k"}

VARIABLES
  env,              \* process.env: API_KEY and GEMINI_API_KEY, fixed at build
  activeTab,        \* App: "generator", "chat" or "resources"
  description,      \* CodeGenerator: the task description
  loading,          \* CodeGenerator: the loading flag
  output,           \* CodeGenerator: the result buffer, Null or <<text>>
  gen,              \* CodeGenerator: the generateCode call of this mount
  genOrphans,       \* generateCode calls in flight whose panel was removed
  messages,         \* ChatAssistant: the transcript
  input,            \* ChatAssistant: the input box
  isTyping,         \* ChatAssistant: the typing flag
  chatSessionRef,   \* ChatAssistant: the session handle, 0 for null
  chatEx,           \* ChatAssistant: the sendMessage calls in flight
  sessionsCreated,  \* ai.chats.create calls made since the page loaded
  genClick,         \* what the last click on Generate did in this mount
  hasError,         \* ErrorBoundary: state.hasError
  content,          \* SimpleMarkdownRenderer: the content prop, by character
  rendered          \* SimpleMarkdownRenderer: the element returned for content

vars == <<env, activeTab, description, loading, output, gen, genOrphans,
          messages, input, isTyping, chatSessionRef, chatEx, sessionsCreated,
          genClick, hasError, content, rendered>>

renderVars == <<content, rendered>>
genVars == <<description, loading, output, gen, genClick>>
chatVars == <<messages, input, isTyping, chatSessionRef, chatEx>>

Null == << >>
Some(t) == <<t>>

\* process.env.API_KEY || process.env.GEMINI_API_KEY
apiKey == IF env.API_KEY # "" THEN env.API_KEY ELSE env.GEMINI_API_KEY

MissingKeyMessage ==
  <<"Configuration Error: The API_KEY or GEMINI_API_KEY environment variable is missing.">>

getGenAIBug == [ok |-> TRUE, message |-> << >>]
getGenAI ==
  IF apiKey = ""
  THEN [ok |-> FALSE, message |-> MissingKeyMessage]
  ELSE [ok |-> TRUE, message |-> << >>]

\* error.message || "Unknown error"
ErrorText(message) == IF message = << >> THEN <<"Unknown error">> ELSE message

GenDiagnostic(errorMsg) ==
  <<"**CONFIGURATION ERROR**">> \o errorMsg \o <<"To fix this on Vercel: ...">>

ChatInitMessage == <<"Missing API_KEY or GEMINI_API_KEY environment variable.">>

ChatDiagnostic(errorMsg) ==
  <<"**CONFIGURATION ERROR**: ">> \o errorMsg \o <<". Please check Vercel settings.">>

UserEntry(t) == [role |-> "user", text |-> t]
ModelEntry(t) == [role |-> "model", text |-> t]

\* ------------------------------------------------------------ initial state
IdleGen == [st |-> "idle", fullText |-> << >>, chunks |-> << >>, err |-> << >>]

\* useState initial values of CodeGenerator
GenMounted ==
  /\ description = << >>
  /\ loading = FALSE
  /\ output = Null
  /\ gen = IdleGen
  /\ genClick = "none"

\* ChatAssistant is not on the page
ChatAbsent ==
  /\ messages = << >>
  /\ input = << >>
  /\ isTyping = FALSE
  /\ chatSessionRef = 0
  /\ chatEx = {}

\* The page loads on the generator tab.  The builds explored set neither
\* variable, API_KEY alone or GEMINI_API_KEY alone.
AppInit ==
  /\ env \in [API_KEY : EnvValues, GEMINI_API_KEY : EnvValues]
  /\ env.API_KEY = "" \/ env.GEMINI_API_KEY = ""
  /\ activeTab = "generator"
  /\ GenMounted
  /\ ChatAbsent
  /\ genOrphans = 0
  /\ sessionsCreated = 0
  /\ hasError = FALSE

\* no content has been handed to the renderer on its own
NotRendered == [done |-> FALSE, element |-> Null]

Init ==
  /\ AppInit
  /\ content = << >>
  /\ rendered = NotRendered

\* ------------------------------------------------------------ ErrorBoundary
\* render: the children are returned unless state.hasError
ChildrenShownBug == TRUE
ChildrenShown == ~hasError

\* the panel that App mounts inside the boundary
GeneratorShown == ChildrenShown /\ activeTab = "generator"
ChatShown == ChildrenShown /\ activeTab = "chat"

\* ------------------------------------------------------------ SimpleMarkdownRenderer
\* the backtick character, and the code fence of three of them
Tick == "tick"
Fence == <<Tick, Tick, Tick>>
Bold == <<"*", "*">>
NewLine == <<"\n">>

\* the pieces contents are put together from
Tokens == {Fence, <<Tick>>, Bold, <<"*">>, <<"a">>, <<" ">>, NewLine}

RECURSIVE Flatten(_)
Flatten(ts) == IF ts = << >> THEN << >> ELSE Head(ts) \o Flatten(Tail(ts))

Contents ==
  {Flatten(ts) : ts \in UNION {[1..n -> Tokens] : n \in 0..MaxTokens}}

\* p occurs in s at position i (positions count from 1)
OccursAt(s, p, i) ==
  i + Len(p) - 1 <= Len(s) /\ SubSeq(s, i, i + Len(p) - 1) = p

\* String.prototype.indexOf: the first position of p in s, 0 when there is none
indexOf(s, p) ==
  LET I == {i \in 1..Len(s) : OccursAt(s, p, i)}
  IN  IF I = {} THEN 0 ELSE CHOOSE i \in I : \A j \in I : i <= j

startsWith(s, p) == OccursAt(s, p, 1)
endsWith(s, p) == Len(p) <= Len(s) /\ OccursAt(s, p, Len(s) - Len(p) + 1)

\* content.split on the fence, a pattern without special characters
RECURSIVE SplitFence(_)
SplitFence(s) ==
  LET i == indexOf(s, Fence)
  IN  IF i = 0
      THEN <<s>>
      ELSE <<SubSeq(s, 1, i - 1)>> \o SplitFence(SubSeq(s, i + 3, Len(s)))

\* /\*\*.*?\*\*/ matches at position i up to position j + 1: two asterisks
\* at i, two asterisks at j, no line break between them
BoldMatch(s, i, j) ==
  /\ OccursAt(s, Bold, i)
  /\ j >= i + 2
  /\ OccursAt(s, Bold, j)
  /\ \A k \in (i + 2)..(j - 1) : s[k] # "\n"

\* part.split(/(\*\*.*?\*\*)/g): the leftmost match, closed as early as
\* possible; the text before it, the match itself, then the split of the rest
RECURSIVE SplitBold(_)
SplitBold(s) ==
  LET I == {i \in 1..Len(s) : \E j \in 1..Len(s) : BoldMatch(s, i, j)}
  IN  IF I = {}
      THEN <<s>>
      ELSE LET i == CHOOSE x \in I : \A y \in I : x <= y
               J == {j \in 1..Len(s) : BoldMatch(s, i, j)}
               j == CHOOSE x \in J : \A y \in J : x <= y
           IN  <<SubSeq(s, 1, i - 1), SubSeq(s, i, j + 1)>>
                 \o SplitBold(SubSeq(s, j + 2, Len(s)))

\* index % 2 === 1
IsCodeIndexBug(index) == index % 2 = 0
IsCodeIndex(index) == index % 2 = 1

\* <CodeBlock language={language} code={code.trim()} />
CodeSegment(part) ==
  LET firstLineIndex == indexOf(part, NewLine)
      language == IF firstLineIndex # 0
                  THEN trim(SubSeq(part, 1, firstLineIndex - 1))
                  ELSE <<"t", "e", "x", "t">>
      code == IF firstLineIndex # 0
              THEN SubSeq(part, firstLineIndex + 1, Len(part))
              ELSE part
  IN  [kind |-> "code", language |-> language, code |-> trim(code)]

\* <strong> with subPart.slice(2, -2), or <span> with subPart
Span(subPart) ==
  IF startsWith(subPart, Bold) /\ endsWith(subPart, Bold)
  THEN [tag |-> "strong", text |-> SubSeq(subPart, 3, Len(subPart) - 2)]
  ELSE [tag |-> "span", text |-> subPart]

\* the text block of a part, null when the part is blank
ProseSegment(part) ==
  IF Blank(part)
  THEN [kind |-> "null"]
  ELSE LET textParts == SplitBold(part)
       IN  [kind |-> "prose",
            spans |-> [i \in 1..Len(textParts) |-> Span(textParts[i])]]

\* null for an empty content, else the children of the div, one per part
SimpleMarkdownRenderer(c) ==
  IF c = << >>
  THEN Null
  ELSE LET parts == SplitFence(c)
       IN  Some([n \in 1..Len(parts) |->
                   IF IsCodeIndex(n - 1)
                   THEN CodeSegment(parts[n])
                   ELSE ProseSegment(parts[n])])

\* the renderer is given a content and returns its element
RenderInit ==
  /\ AppInit
  /\ content \in Contents
  /\ rendered = NotRendered

Render ==
  /\ ~rendered.done
  /\ rendered' = [done |-> TRUE, element |-> SimpleMarkdownRenderer(content)]
  /\ UNCHANGED <<content, env, activeTab, genVars, chatVars, genOrphans,
                 sessionsCreated, hasError>>

RenderNext == Render

RenderSpec == RenderInit /\ [][RenderNext]_vars

\* ------------------------------------------------------------ CodeGenerator
GenInFlight == gen.st \in {"request", "streaming"}

\* generation requests issued and not yet finished, on or off the page
GenOutstanding == (IF GenInFlight THEN 1 ELSE 0) + genOrphans

\* disabled={loading || !description.trim()}
GenerateDisabled == loading \/ Blank(description)

\* onChange of the description textarea
setDescription(d) ==
  /\ GeneratorShown
  /\ description' = d
  /\ UNCHANGED <<renderVars, env, hasError, activeTab, loading, output, gen, genClick, genOrphans,
                 chatVars,
                 sessionsCreated>>

\* a suggestion button, shown while !output && !loading
ClickSuggestion ==
  /\ GeneratorShown
  /\ output \in {Null, Some(<< >>)}
  /\ ~loading
  /\ description' = SuggestionTask
  /\ UNCHANGED <<renderVars, env, hasError, activeTab, loading, output, gen, genClick, genOrphans,
                 chatVars,
                 sessionsCreated>>

\* catch: the result buffer is set to the diagnostic
GenCatchBug(message) ==
  output' = Some((IF output = Null THEN << >> ELSE output[1])
                 \o GenDiagnostic(ErrorText(message)))
GenCatch(message) == output' = Some(GenDiagnostic(ErrorText(message)))

\* finally: setLoading(false)
GenFinallyBug == UNCHANGED loading
GenFinally == loading' = FALSE

\* generateCode up to its first await
generateCode ==
  IF Blank(description)
  THEN UNCHANGED <<loading, output, gen>>
  ELSE IF ~getGenAI.ok
       THEN /\ GenCatch(getGenAI.message)
            /\ GenFinally
            /\ gen' = [st |-> "failed", fullText |-> << >>, chunks |-> << >>,
                       err |-> getGenAI.message]
       ELSE /\ loading' = TRUE
            /\ output' = Some(<< >>)
            /\ gen' = [st |-> "request", fullText |-> << >>, chunks |-> << >>,
                       err |-> << >>]

\* a click on the Generate button
ClickGenerate ==
  /\ GeneratorShown
  /\ IF GenerateDisabled
     THEN UNCHANGED <<loading, output, gen>>
     ELSE generateCode
  /\ genClick' = IF ~GenerateDisabled THEN "generateCode"
                  ELSE IF loading THEN "busy" ELSE "blank"
  /\ UNCHANGED <<renderVars, env, hasError, activeTab, description, genOrphans, chatVars,
                 sessionsCreated>>

\* await ai.models.generateContentStream(...) returns the stream
GenRequestResolves ==
  /\ GeneratorShown
  /\ gen.st = "request"
  /\ gen' = [gen EXCEPT !.st = "streaming", !.fullText = << >>]
  /\ UNCHANGED <<renderVars, env, hasError, activeTab, description, loading, output, genClick,
                 genOrphans, chatVars, sessionsCreated>>

\* the request, or the next read of the stream, throws
GenFails(message) ==
  /\ GeneratorShown
  /\ GenInFlight
  /\ GenCatch(message)
  /\ GenFinally
  /\ gen' = [gen EXCEPT !.st = "failed", !.err = message]
  /\ UNCHANGED <<renderVars, env, hasError, activeTab, description, genClick, genOrphans, chatVars,
                 sessionsCreated>>

\* one round of for await (const chunk of responseStream)
GenChunkBug(text) ==
  /\ GeneratorShown
  /\ gen.st = "streaming"
  /\ Len(gen.chunks) < MaxChunks
  /\ gen' = [gen EXCEPT !.fullText = text, !.chunks = Append(gen.chunks, text)]
  /\ output' = Some(text)
  /\ UNCHANGED <<renderVars, env, hasError, activeTab, description, loading, genClick, genOrphans,
                 chatVars, sessionsCreated>>
GenChunk(text) ==
  /\ GeneratorShown
  /\ gen.st = "streaming"
  /\ Len(gen.chunks) < MaxChunks
  /\ IF text # << >>
     THEN /\ gen' = [gen EXCEPT !.fullText = gen.fullText \o text,
                                !.chunks = Append(gen.chunks, text)]
          /\ output' = Some(gen.fullText \o text)
     ELSE /\ gen' = [gen EXCEPT !.chunks = Append(gen.chunks, text)]
          /\ output' = output
  /\ UNCHANGED <<renderVars, env, hasError, activeTab, description, loading, genClick, genOrphans,
                 chatVars, sessionsCreated>>

\* the stream ends: the loop is left and finally runs
GenStreamEnds ==
  /\ GeneratorShown
  /\ gen.st = "streaming"
  /\ GenFinally
  /\ gen' = [gen EXCEPT !.st = "done"]
  /\ UNCHANGED <<renderVars, env, hasError, activeTab, description, output, genClick, genOrphans,
                 chatVars, sessionsCreated>>

\* a generateCode call of a removed panel runs to its end: its state updates
\* reach no mounted component
GenOrphanFinishes ==
  /\ genOrphans > 0
  /\ genOrphans' = genOrphans - 1
  /\ UNCHANGED <<renderVars, env, hasError, activeTab, genVars, chatVars, sessionsCreated>>

\* ------------------------------------------------------------ ChatAssistant
\* initChat: the handle the session reference holds afterwards
initChat == IF getGenAI.ok THEN sessionsCreated + 1 ELSE 0

\* disabled={!input.trim() || isTyping}
SendDisabled == Blank(input) \/ isTyping

\* entries a sendMessage call in flight may still append: the model entry
\* and a diagnostic, or the diagnostic alone
RECURSIVE Reserved(_)
Reserved(S) ==
  IF S = {} THEN 0
  ELSE LET e == CHOOSE x \in S : TRUE
       IN (IF e.st = "request" THEN 2 ELSE 1) + Reserved(S \ {e})

RECURSIVE SumChunks(_)
SumChunks(S) ==
  IF S = {} THEN 0
  ELSE LET e == CHOOSE x \in S : TRUE IN Len(e.chunks) + SumChunks(S \ {e})

\* onChange of the chat input
setInput(v) ==
  /\ ChatShown
  /\ input' = v
  /\ UNCHANGED <<renderVars, env, hasError, activeTab, genVars, genOrphans, messages, isTyping,
                 chatSessionRef, chatEx, sessionsCreated>>

\* catch: a diagnostic entry is appended
ChatCatchBug(msgs, message) ==
  IF msgs # << >> /\ msgs[Len(msgs)].role = "model"
  THEN [msgs EXCEPT ![Len(msgs)] = ModelEntry(ChatDiagnostic(ErrorText(message)))]
  ELSE Append(msgs, ModelEntry(ChatDiagnostic(ErrorText(message))))
ChatCatch(msgs, message) ==
  Append(msgs, ModelEntry(ChatDiagnostic(ErrorText(message))))

\* finally: setIsTyping(false)
ChatFinally == isTyping' = FALSE

\* sendMessage up to its first await
sendMessage ==
  IF Blank(input)
  THEN UNCHANGED <<messages, input, isTyping, chatSessionRef, chatEx,
                   sessionsCreated>>
  ELSE LET withUser == Append(messages, UserEntry(input))
           session == IF chatSessionRef = 0 THEN initChat ELSE chatSessionRef
       IN /\ input' = << >>
          /\ chatSessionRef' = session
          /\ sessionsCreated' = IF session # chatSessionRef
                                THEN sessionsCreated + 1
                                ELSE sessionsCreated
          /\ IF session = 0
             THEN /\ messages' = ChatCatch(withUser, ChatInitMessage)
                  /\ ChatFinally
                  /\ chatEx' = chatEx
             ELSE /\ messages' = withUser
                  /\ isTyping' = TRUE
                  /\ chatEx' = chatEx \cup
                       {[uidx |-> Len(withUser), st |-> "request", midx |-> 0,
                         fullResponse |-> << >>, chunks |-> << >>,
                         session |-> session]}

SendAllowed ==
  /\ ChatShown
  /\ Len(messages) + Reserved(chatEx) + 3 <= MaxMessages
  /\ chatSessionRef = 0 /\ getGenAI.ok => sessionsCreated < MaxSessions

\* a click on the Send button
ClickSend ==
  /\ SendAllowed
  /\ IF SendDisabled
     THEN UNCHANGED <<messages, input, isTyping, chatSessionRef, chatEx,
                      sessionsCreated>>
     ELSE sendMessage
  /\ UNCHANGED <<renderVars, env, hasError, activeTab, genVars, genOrphans>>

\* onKeyDown: e.key === 'Enter' && sendMessage()
PressEnter ==
  /\ SendAllowed
  /\ sendMessage
  /\ UNCHANGED <<renderVars, env, hasError, activeTab, genVars, genOrphans>>

\* await chatSessionRef.current.sendMessageStream(...) returns the stream
ChatRequestResolves(e) ==
  /\ ChatShown
  /\ e \in chatEx
  /\ e.st = "request"
  /\ messages' = Append(messages, ModelEntry(<< >>))
  /\ chatEx' = (chatEx \ {e}) \cup
       {[e EXCEPT !.st = "streaming", !.midx = Len(messages) + 1,
                  !.fullResponse = << >>]}
  /\ UNCHANGED <<renderVars, env, hasError, activeTab, genVars, genOrphans, input, isTyping,
                 chatSessionRef, sessionsCreated>>

\* the request, or the next read of the stream, throws
ChatFails(e, message) ==
  /\ ChatShown
  /\ e \in chatEx
  /\ messages' = ChatCatch(messages, message)
  /\ ChatFinally
  /\ chatEx' = chatEx \ {e}
  /\ UNCHANGED <<renderVars, env, hasError, activeTab, genVars, genOrphans, input, chatSessionRef,
                 sessionsCreated>>

\* newArr[newArr.length - 1].text = fullResponse
OverwriteLastBug(msgs, text) == [msgs EXCEPT ![Len(msgs) - 1].text = text]
OverwriteLast(msgs, text) == [msgs EXCEPT ![Len(msgs)].text = text]

\* one round of for await (const chunk of resultStream)
ChatChunk(e, text) ==
  /\ ChatShown
  /\ e \in chatEx
  /\ e.st = "streaming"
  /\ SumChunks(chatEx) < MaxChunks
  /\ messages' = OverwriteLast(messages, e.fullResponse \o text)
  /\ chatEx' = (chatEx \ {e}) \cup
       {[e EXCEPT !.fullResponse = e.fullResponse \o text,
                  !.chunks = Append(e.chunks, text)]}
  /\ UNCHANGED <<renderVars, env, hasError, activeTab, genVars, genOrphans, input, isTyping,
                 chatSessionRef, sessionsCreated>>

\* the stream ends: the loop is left and finally runs
ChatStreamEnds(e) ==
  /\ ChatShown
  /\ e \in chatEx
  /\ e.st = "streaming"
  /\ ChatFinally
  /\ chatEx' = chatEx \ {e}
  /\ UNCHANGED <<renderVars, env, hasError, activeTab, genVars, genOrphans, messages, input,
                 chatSessionRef, sessionsCreated>>

\* ------------------------------------------------------------ App
Tabs == {"generator", "chat", "resources"}

\* setActiveTab(tab): the panel of the old tab is removed with its state, the
\* panel of the new tab is mounted with its initial state; mounting
\* ChatAssistant runs the effect that calls initChat.  The sendMessage calls
\* of a removed ChatAssistant run on, but their state updates reach no
\* mounted component and they are not followed further
setActiveTab(tab) ==
  /\ ChildrenShown
  /\ tab # activeTab
  /\ GenInFlight => genOrphans < MaxGenOrphans
  /\ tab = "chat" /\ getGenAI.ok => sessionsCreated < MaxSessions
  /\ activeTab' = tab
  /\ description' = << >>
  /\ loading' = FALSE
  /\ output' = Null
  /\ gen' = IdleGen
  /\ genClick' = "none"
  /\ genOrphans' = genOrphans + (IF GenInFlight THEN 1 ELSE 0)
  /\ messages' = << >>
  /\ input' = << >>
  /\ isTyping' = FALSE
  /\ chatEx' = {}
  /\ chatSessionRef' = IF tab = "chat" THEN initChat ELSE 0
  /\ sessionsCreated' = IF tab = "chat" /\ initChat # 0
                        THEN sessionsCreated + 1
                        ELSE sessionsCreated
  /\ UNCHANGED <<renderVars, env, hasError>>

\* a descendant of the boundary throws while it renders:
\* getDerivedStateFromError sets hasError, render returns the diagnostic
\* panel and the children are removed with their state; activeTab is state
\* of App, above the boundary
RenderFault ==
  /\ ~hasError
  /\ GenInFlight => genOrphans < MaxGenOrphans
  /\ hasError' = TRUE
  /\ description' = << >>
  /\ loading' = FALSE
  /\ output' = Null
  /\ gen' = IdleGen
  /\ genClick' = "none"
  /\ genOrphans' = genOrphans + (IF GenInFlight THEN 1 ELSE 0)
  /\ messages' = << >>
  /\ input' = << >>
  /\ isTyping' = FALSE
  /\ chatSessionRef' = 0
  /\ chatEx' = {}
  /\ UNCHANGED <<renderVars, env, activeTab, sessionsCreated>>

\* the Refresh Page button of the diagnostic panel: window.location.reload()
\* loads the page anew, and the calls in flight end with the old page
ReloadPage ==
  /\ hasError
  /\ hasError' = FALSE
  /\ activeTab' = "generator"
  /\ description' = << >>
  /\ loading' = FALSE
  /\ output' = Null
  /\ gen' = IdleGen
  /\ genClick' = "none"
  /\ genOrphans' = 0
  /\ messages' = << >>
  /\ input' = << >>
  /\ isTyping' = FALSE
  /\ chatSessionRef' = 0
  /\ chatEx' = {}
  /\ sessionsCreated' = 0
  /\ UNCHANGED <<renderVars, env>>

\* ------------------------------------------------------------ specification
Next ==
  \/ \E d \in Descriptions : setDescription(d)
  \/ ClickSuggestion
  \/ ClickGenerate
  \/ GenRequestResolves
  \/ \E m \in ErrorMessages : GenFails(m)
  \/ \E t \in ChunkTexts(Len(gen.chunks) + 1) : GenChunk(t)
  \/ GenStreamEnds
  \/ GenOrphanFinishes
  \/ \E v \in Inputs : setInput(v)
  \/ ClickSend
  \/ PressEnter
  \/ \E e \in chatEx : ChatRequestResolves(e)
  \/ \E e \in chatEx, m \in ErrorMessages : ChatFails(e, m)
  \/ \E e \in chatEx : \E t \in ChatChunkTexts(Len(e.chunks) + 1) : ChatChunk(e, t)
  \/ \E e \in chatEx : ChatStreamEnds(e)
  \/ \E tab \in Tabs : setActiveTab(tab)
  \/ RenderFault
  \/ ReloadPage

Spec == Init /\ [][Next]_vars

\* The request of a call in flight returns and its stream ends or fails: the
\* service answers every request, and the event loop runs every continuation
\* that is ready.
GenProgress ==
  \/ GenRequestResolves
  \/ \E m \in ErrorMessages : GenFails(m)
  \/ \E t \in ChunkTexts(Len(gen.chunks) + 1) : GenChunk(t)
  \/ GenStreamEnds

ChatProgress ==
  \/ \E e \in chatEx : ChatRequestResolves(e)
  \/ \E e \in chatEx, m \in ErrorMessages : ChatFails(e, m)
  \/ \E e \in chatEx : \E t \in ChatChunkTexts(Len(e.chunks) + 1) : ChatChunk(e, t)
  \/ \E e \in chatEx : ChatStreamEnds(e)

FairSpec == Spec /\ WF_vars(GenProgress) /\ WF_vars(ChatProgress)

\* C4: every generate or send that sets its loading or typing flag is
\* eventually followed by that flag being cleared, however the request and
\* the stream turn out.
C4_FlagsEventuallyCleared ==
  /\ loading ~> ~loading
  /\ isTyping ~> ~isTyping

\* ------------------------------------------------------------ properties
RECURSIVE Concat(_)
Concat(cs) == IF cs = << >> THEN << >> ELSE Head(cs) \o Concat(Tail(cs))

WhitespaceOnly(s) == \A i \in 1..Len(s) : s[i] = " "

NoCredential == env.API_KEY = "" /\ env.GEMINI_API_KEY = ""

\* C1: when the stream of a send ends, the model entry that this send
\* appended holds the concatenation of the chunks the stream delivered, in
\* their order.
C1_ChatOrdering ==
  [][\A e \in chatEx :
       ChatStreamEnds(e) => messages'[e.midx].text = Concat(e.chunks)]_vars

\* C2: with neither API_KEY nor GEMINI_API_KEY set, a generate with a
\* non-blank description leaves the configuration diagnostic in the result
\* buffer, a send with non-blank input appends the user entry and a
\* configuration diagnostic, and no request is ever in flight.
C2_MissingCredential ==
  [][NoCredential =>
       /\ GenOutstanding' = 0
       /\ chatEx' = {}
       /\ ClickGenerate /\ ~WhitespaceOnly(description) =>
            output' = Some(GenDiagnostic(MissingKeyMessage))
       /\ (ClickSend \/ PressEnter) /\ ~WhitespaceOnly(input) =>
            messages' = messages \o
              <<UserEntry(input), ModelEntry(ChatDiagnostic(ChatInitMessage))>>
    ]_vars

C2_Witness ==
  /\ NoCredential
  /\ activeTab = "chat"
  /\ messages = <<UserEntry(<<"q">>), ModelEntry(ChatDiagnostic(ChatInitMessage))>>
  /\ ~isTyping

\* C3: at most one generation request is outstanding at any time.
C3_OneGenerationOutstanding == GenOutstanding <= 1

C4_Witness ==
  /\ activeTab = "generator"
  /\ gen.st = "failed"
  /\ gen.chunks # << >>
  /\ ~loading

\* C5: a click on Generate while the description is empty or whitespace-only
\* issues no request and leaves the result buffer and the loading flag as
\* they were.
C5_PanelGuard ==
  [][ClickGenerate /\ WhitespaceOnly(description) =>
       UNCHANGED <<output, loading, gen, genOrphans>>]_vars

C5_Witness ==
  /\ activeTab = "generator"
  /\ genClick = "blank"
  /\ description = <<" ">>
  /\ gen.st = "done"
  /\ output = Some(<<"a", "b">>)

\* C6: while a send of the mounted chat panel is in flight, the typing flag
\* is set.
C6_TypingCoversExchange == chatEx # {} => isTyping

\* C7: when the stream of a send fails, the transcript grows by one
\* diagnostic model entry and every entry it held, the one with the partial
\* response included, is as it was.
C7_ChatFailureAppends ==
  [][\A e \in chatEx, m \in ErrorMessages :
       ChatFails(e, m) /\ e.st = "streaming" =>
         /\ Len(messages') = Len(messages) + 1
         /\ messages'[Len(messages')] =
              ModelEntry(ChatDiagnostic(IF m = << >> THEN <<"Unknown error">> ELSE m))
         /\ \A i \in 1..Len(messages) : messages'[i] = messages[i]]_vars

C7_Witness ==
  /\ activeTab = "chat"
  /\ Len(messages) = 3
  /\ messages[2] = ModelEntry(<<"a", "b">>)
  /\ messages[3] = ModelEntry(ChatDiagnostic(<<"fetch failed">>))
  /\ chatEx = {}

\* C8: after a generation has failed, the result buffer holds the diagnostic
\* for that failure and nothing else.
C8_GenerationFailure ==
  gen.st = "failed" =>
    output = Some(<<"**CONFIGURATION ERROR**">>
                  \o (IF gen.err = << >> THEN <<"Unknown error">> ELSE gen.err)
                  \o <<"To fix this on Vercel: ...">>)

C8_Witness ==
  /\ activeTab = "generator"
  /\ gen.st = "failed"
  /\ gen.fullText = <<"a", "b">>
  /\ gen.err = <<"fetch failed">>
  /\ output = Some(GenDiagnostic(<<"fetch failed">>))

\* C9: the session handle is constructed at most once in a page lifetime.
C9_SessionConstructedOnce == sessionsCreated <= 1

\* C10: in every step of a mounted chat panel the transcript does not
\* shrink, every entry keeps its place and its role, and only the entry that
\* was last before the step may have its text changed.
C10_TranscriptAppendOnly ==
  [][ChatShown /\ ChatShown' =>
       /\ Len(messages') >= Len(messages)
       /\ \A i \in 1..Len(messages) :
            /\ messages'[i].role = messages[i].role
            /\ i < Len(messages) => messages'[i].text = messages[i].text]_vars

C10_Witness ==
  /\ activeTab = "chat"
  /\ Len(messages) = 4
  /\ messages[3] = UserEntry(<<"a">>)
  /\ messages[4].role = "model"

\* C14: a chunk of a send changes the text of the model entry that this send
\* appended and of no other entry.
C14_ChunkWritesOwnTurn ==
  [][\A e \in chatEx : \A t \in ChatChunkTexts(Len(e.chunks) + 1) :
       ChatChunk(e, t) =>
         \A i \in 1..Len(messages) : i # e.midx => messages'[i] = messages[i]]_vars

\* C15: a generate with a non-blank description empties the result buffer,
\* and while its stream runs and after it has ended the buffer holds the
\* concatenation of the chunks received so far, in their order.
C15_ResultGrowsByConcatenation ==
  GenInFlight \/ gen.st = "done" => output = Some(Concat(gen.chunks))

C15_Witness ==
  /\ activeTab = "generator"
  /\ gen.st = "done"
  /\ gen.chunks = << <<"a">>, <<"b">> >>
  /\ output = Some(<<"a", "b">>)

\* C13: once a fault has put the boundary into its error state, the
\* diagnostic panel stays: no panel is mounted and none of their state
\* changes while the error state lasts, and the error state ends only with
\* the page loaded anew.
C13_FaultBarrierAbsorbing ==
  [][hasError =>
       /\ hasError' => UNCHANGED <<activeTab, genVars, chatVars, sessionsCreated>>
       /\ ~ChildrenShown /\ GenMounted /\ ChatAbsent
       /\ ENABLED ReloadPage
       /\ ~hasError' => Init']_vars

C13_Witness ==
  /\ hasError
  /\ activeTab = "chat"
  /\ sessionsCreated = 1
  /\ genOrphans = 1

\* the parts put together again, a fence between each two
RECURSIVE JoinFence(_)
JoinFence(parts) ==
  IF Len(parts) = 1
  THEN parts[1]
  ELSE parts[1] \o Fence \o JoinFence(Tail(parts))

\* C11: the empty content yields no segments; a non-empty content is cut at
\* its fences, and the chunk at index N (from 0) is rendered by the code
\* branch when N is odd and by the prose branch when N is even (a text block,
\* or nothing when the chunk is blank); with an odd number of fences the last
\* segment is a code segment whose chunk runs to the end of the content.
C11_SegmentParity ==
  rendered.done =>
    IF content = << >>
    THEN rendered.element = Null
    ELSE /\ rendered.element # Null
         /\ LET parts == SplitFence(content)
                segments == rendered.element[1]
                last == Len(parts)
            IN  /\ JoinFence(parts) = content
                /\ \A n \in 1..last : indexOf(parts[n], Fence) = 0
                /\ Len(segments) = last
                /\ \A n \in 1..last :
                     IF (n - 1) % 2 = 1
                     THEN segments[n].kind = "code"
                     ELSE segments[n].kind =
                            IF Blank(parts[n]) THEN "null" ELSE "prose"
                /\ (last - 1) % 2 = 1 =>
                     /\ segments[last].kind = "code"
                     /\ endsWith(content, parts[last])

C11_Witness ==
  /\ rendered.done
  /\ content = <<"a", Tick, Tick, Tick, "a", "\n">>
  /\ rendered.element # Null
  /\ Len(rendered.element[1]) = 2
  /\ rendered.element[1][1].kind = "prose"
  /\ rendered.element[1][2] =
       [kind |-> "code", language |-> <<"a">>, code |-> << >>]

\* s as a whole is a match of the pattern of two asterisks, any characters
\* of one line, two asterisks
IsBoldSpan(s) == Len(s) >= 4 /\ BoldMatch(s, 1, Len(s) - 1)

\* C12: in a prose chunk a span of the split is rendered as emphasized text
\* without its two leading and two trailing asterisks if and only if it is a
\* match of the pattern, and every other span as plain text, unchanged.
C12_EmphasisIffMatch ==
  rendered.done /\ rendered.element # Null =>
    LET parts == SplitFence(content)
        segments == rendered.element[1]
    IN  \A n \in 1..Len(segments) :
          segments[n].kind = "prose" =>
            LET textParts == SplitBold(parts[n])
            IN  /\ Len(segments[n].spans) = Len(textParts)
                /\ \A k \in 1..Len(textParts) :
                     segments[n].spans[k] =
                       IF IsBoldSpan(textParts[k])
                       THEN [tag |-> "strong",
                             text |-> SubSeq(textParts[k], 3,
                                             Len(textParts[k]) - 2)]
                       ELSE [tag |-> "span", text |-> textParts[k]]

====
